---- MODULE Spec2Model ----
(***************************************************************************)
(* Voice Typing Assistant (src/main.py): the session control loop          *)
(* (start_listening_thread / stop_listening / listen_and_type), the Tk     *)
(* callback queue fed by update_status / append_output_line, and the text  *)
(* normalisers punctuate / auto_capitalise.                                *)
(*                                                                         *)
(* Two kinds of execution context exist: the Tk main loop, which runs the  *)
(* button handlers and the queued _apply callbacks one at a time, and the  *)
(* daemon threads running listen_and_type.  Each line of a handler that    *)
(* touches shared state is a step of its own, so every interleaving the    *)
(* interpreter can produce between the two contexts is explored.           *)
(***************************************************************************)
EXTENDS Integers, Sequences, FiniteSets, TLC

(* ---------------------------- bounds ----------------------------------- *)
\* number of user actions (button presses, checkbox clicks) in one run
MaxCalls == 3
\* number of iterations of the while loop the threads may begin, all together
MaxIter == 2
\* a button handler is entered, and a loop iteration begun, only while fewer
\* callbacks than this wait in the queue of the Tk loop
MaxQueue == 1

\* number of pieces an argument of the text functions is put together from
MaxTokens == 3

\* start() creates a thread only when the flag is down, and only stop() takes
\* it down: of any 2k - 1 user actions at most k create a thread
Threads == 1..((MaxCalls + 1) \div 2)

(* ---------------------------- texts ------------------------------------ *)
\* A text is a sequence of one-character strings.
\* What recognize_google may return for a captured utterance: a word, and a
\* text of whitespace only (which auto_capitalise reduces to the empty text).
Utterances == { <<"h", "i">>, <<" ">> }

(* ---------------------------- characters ------------------------------- *)
LowerLetters == <<"a", "b", "c", "d", "e", "f", "g", "h", "i", "j", "k", "l", "m", "n", "o", "p", "q", "r", "s", "t", "u", "v", "w", "x", "y", "z">>
UpperLetters == <<"A", "B", "C", "D", "E", "F", "G", "H", "I", "J", "K", "L", "M", "N", "O", "P", "Q", "R", "S", "T", "U", "V", "W", "X", "Y", "Z">>
DigitChars == {"0", "1", "2", "3", "4", "5", "6", "7", "8", "9"}

IndexOf(c, letters) ==
    IF \E i \in DOMAIN letters : letters[i] = c
    THEN CHOOSE i \in DOMAIN letters : letters[i] = c
    ELSE 0

\* str.lower() / str.upper() of one character: letters change case, every
\* other character is returned as it is.
ToLower(c) == LET i == IndexOf(c, UpperLetters) IN IF i > 0 THEN LowerLetters[i] ELSE c
ToUpper(c) == LET i == IndexOf(c, LowerLetters) IN IF i > 0 THEN UpperLetters[i] ELSE c

\* \w, \s and the character classes [,.!?] and [.?!] of the patterns
IsWord(c) == IndexOf(c, LowerLetters) > 0 \/ IndexOf(c, UpperLetters) > 0 \/ c \in DigitChars \/ c = "_"
IsSpace(c) == c \in {" ", "\n", "\t"}
IsPunct(c) == c \in {",", ".", "!", "?"}
IsTerminal(c) == c \in {".", "?", "!"}

Slice(s, a, b) == IF a > b THEN <<>> ELSE SubSeq(s, a, b)

\* str.strip(): drops the leading and the trailing whitespace
RECURSIVE LStrip(_)
LStrip(s) == IF s # <<>> /\ IsSpace(Head(s)) THEN LStrip(Tail(s)) ELSE s
RECURSIVE RStrip(_)
RStrip(s) == IF s # <<>> /\ IsSpace(s[Len(s)]) THEN RStrip(Slice(s, 1, Len(s) - 1)) ELSE s
Strip(s) == RStrip(LStrip(s))

(* ---------------------------- punctuate -------------------------------- *)
\* the spoken keywords of the replacements list, lines 44-50
KwQuestionMark == <<"q", "u", "e", "s", "t", "i", "o", "n", " ", "m", "a", "r", "k">>
KwExclamationMark == <<"e", "x", "c", "l", "a", "m", "a", "t", "i", "o", "n", " ", "m", "a", "r", "k">>
KwComma == <<"c", "o", "m", "m", "a">>
KwFullStop == <<"f", "u", "l", "l", " ", "s", "t", "o", "p">>
KwNewLine == <<"n", "e", "w", " ", "l", "i", "n", "e">>

\* the replacements list in its order: (keyword, symbol)
replacements == << <<KwQuestionMark, "?">>, <<KwExclamationMark, "!">>,
                   <<KwComma, ",">>, <<KwFullStop, ".">>, <<KwNewLine, "\n">> >>

\* KeywordAt without re.IGNORECASE
KeywordAtExact(s, i, kw) ==
    /\ i + Len(kw) - 1 <= Len(s)
    /\ \A k \in 1..Len(kw) : s[i + k - 1] = kw[k]
    /\ (i = 1 \/ ~IsWord(s[i - 1]))
    /\ (i + Len(kw) - 1 = Len(s) \/ ~IsWord(s[i + Len(kw)]))

\* r'\bkw\b' with re.IGNORECASE matches s at position i
KeywordAt(s, i, kw) ==
    /\ i + Len(kw) - 1 <= Len(s)
    /\ \A k \in 1..Len(kw) : ToLower(s[i + k - 1]) = kw[k]
    /\ (i = 1 \/ ~IsWord(s[i - 1]))
    /\ (i + Len(kw) - 1 = Len(s) \/ ~IsWord(s[i + Len(kw)]))

RECURSIVE SubFrom(_, _, _, _)
\* SubFrom with count=1: the first match is replaced and the rest kept
SubFirstOnly(s, i, kw, sym) ==
    IF i > Len(s) THEN <<>>
    ELSE IF KeywordAt(s, i, kw) THEN <<sym>> \o Slice(s, i + Len(kw), Len(s))
    ELSE <<s[i]>> \o SubFrom(s, i + 1, kw, sym)

\* re.sub(r'\bkw\b', sym, s, flags=re.IGNORECASE): leftmost matches, left to
\* right, none overlapping
SubFrom(s, i, kw, sym) ==
    IF i > Len(s) THEN <<>>
    ELSE IF KeywordAt(s, i, kw) THEN <<sym>> \o SubFrom(s, i + Len(kw), kw, sym)
    ELSE <<s[i]>> \o SubFrom(s, i + 1, kw, sym)
SubKeyword(s, kw, sym) == SubFrom(s, 1, kw, sym)

\* the for loop of lines 52-53 over the first n replacements
RECURSIVE SubAll(_, _)
SubAll(s, n) ==
    IF n = 0 THEN s
    ELSE SubKeyword(SubAll(s, n - 1), replacements[n][1], replacements[n][2])

\* end of the whitespace run that starts at i (i - 1 when s[i] is no whitespace)
RECURSIVE SpaceRunEnd(_, _)
SpaceRunEnd(s, i) ==
    IF i <= Len(s) /\ IsSpace(s[i]) THEN SpaceRunEnd(s, i + 1) ELSE i - 1

\* re.sub(r'\s+([,.!?])', r'\1', s): a whitespace run is dropped when the
\* character after it is one of , . ! ?
RECURSIVE DropSpaceFrom(_, _)
DropSpaceFrom(s, i) ==
    IF i > Len(s) THEN <<>>
    ELSE LET j == SpaceRunEnd(s, i) IN
         IF j >= i /\ j < Len(s) /\ IsPunct(s[j + 1])
         THEN <<s[j + 1]>> \o DropSpaceFrom(s, j + 2)
         ELSE <<s[i]>> \o DropSpaceFrom(s, i + 1)
DropSpaceBeforePunct(s) == DropSpaceFrom(s, 1)

\* punctuate(text), lines 39-56
punctuate(s) == Strip(DropSpaceBeforePunct(SubAll(s, Len(replacements))))

(* ---------------------------- auto_capitalise -------------------------- *)
\* re.sub(r'\s*([.?!])\s*', r'\1 ', s): a terminator together with the
\* whitespace around it becomes the terminator and one space
RECURSIVE NormFrom(_, _)
NormFrom(s, i) ==
    IF i > Len(s) THEN <<>>
    ELSE LET j == SpaceRunEnd(s, i) IN
         IF j < Len(s) /\ IsTerminal(s[j + 1])
         THEN <<s[j + 1], " ">> \o NormFrom(s, SpaceRunEnd(s, j + 2) + 1)
         ELSE <<s[i]>> \o NormFrom(s, i + 1)
NormaliseSpacing(s) == Strip(NormFrom(s, 1))

\* re.split(r'([.?!]\s)', s): the pieces between the delimiters and the
\* delimiters themselves, alternating; from is where the current piece began
RECURSIVE SplitFrom(_, _, _)
SplitFrom(s, i, from) ==
    IF i > Len(s) THEN << Slice(s, from, Len(s)) >>
    ELSE IF i < Len(s) /\ IsTerminal(s[i]) /\ IsSpace(s[i + 1])
    THEN << Slice(s, from, i - 1), Slice(s, i, i + 1) >> \o SplitFrom(s, i + 2, i + 2)
    ELSE SplitFrom(s, i + 1, from)
SplitSentences(s) == SplitFrom(s, 1, 1)

\* CapitaliseFirst with sent.capitalize(): the rest of the sentence is lowered
CapitaliseWhole(sent) ==
    IF sent = <<>> THEN sent
    ELSE <<ToUpper(sent[1])>> \o [i \in 1..(Len(sent) - 1) |-> ToLower(sent[i + 1])]

\* CapitaliseFirst with swapcase() in place of upper()
SwapFirst(sent) ==
    IF sent = <<>> THEN sent
    ELSE <<IF ToUpper(sent[1]) # sent[1] THEN ToUpper(sent[1]) ELSE ToLower(sent[1])>>
         \o Tail(sent)

\* sent[0].upper() + sent[1:], line 73, guarded by "if sent", line 71
CapitaliseFirst(sent) ==
    IF sent = <<>> THEN sent ELSE <<ToUpper(sent[1])>> \o Tail(sent)

\* the for loop of lines 68-74 from index i (1-based) and the join of line 75
RECURSIVE JoinFrom(_, _)
JoinFrom(parts, i) ==
    IF i > Len(parts) THEN <<>>
    ELSE LET sent == Strip(parts[i])
             sep == IF i + 1 <= Len(parts) THEN parts[i + 1] ELSE <<>>
         IN  CapitaliseFirst(sent) \o sep \o JoinFrom(parts, i + 2)

\* auto_capitalise(text), lines 59-75
auto_capitalise(s) == Strip(JoinFrom(SplitSentences(NormaliseSpacing(s)), 1))

(* ---------------------------- events ----------------------------------- *)
\* The messages passed to update_status, by the line that passes them.
MsgReady == "Ready"
MsgListening == "Listening... Speak now."
MsgNoSpeech == "Didn't catch that. Try again."
MsgServiceUnavailable == "Could not connect to speech service (check internet)."
MsgTypingFailed == "Typing failed"
MsgStopped == "Stopped listening."
MsgStarted == "Started listening..."
MsgAlready == "Already listening..."
MsgStopping == "Stopping..."
\* stands in emitted for a call of append_output_line
Transcript == "transcript"

\* One root.after(0, _apply) callback; src is the thread that registered it
\* (0 is the Tk main loop), seq its number among the callbacks of that thread
\* (history, 0 for the Tk main loop).
StatusEv(s, m) == [src |-> s, seq |-> 0, kind |-> "status", status |-> m, text |-> <<>>]
LineEv(s, x) == [src |-> s, seq |-> 0, kind |-> "line", status |-> "", text |-> x]
Numbered(ev, n) == [ev EXCEPT !.seq = n]

VARIABLES
    is_listening,      \* global flag, line 27
    listening_thread,  \* global, line 28: id of the last thread created, 0 for None
    auto_punctuation,  \* tk.BooleanVar, line 195
    auto_capital,      \* tk.BooleanVar, line 196
    status_label,      \* text of status_label, line 219
    output_box,        \* what has been inserted into output_box, line 216
    uiQueue,           \* callbacks registered with root.after(0, ...) and not yet run
    ui_pc,             \* position of the Tk main loop inside a button handler
    pc,                \* position of each listen_and_type thread
    text,              \* local variable text of each thread, <<>> while it holds nothing that will be read
    iterations,        \* history: iterations of the while loop begun so far, all threads together
    emitted,           \* history: what each thread has emitted since it last began an iteration
    nStopped,          \* history: how often each thread has emitted the terminal status
    exitReason,        \* history: how each thread left the while loop
    lastCall,          \* history: the last of start / stop the user invoked
    acqAfterStop,      \* history: listen calls each thread began since the last stop() with no start() after it
    afterStop,         \* history: what each thread has emitted since that stop()
    windowElapsed,     \* history: a listen call begun after that stop() has run into its timeout
    posted,            \* history: number of callbacks each thread has registered
    delivered,         \* history: number of callbacks of each thread the Tk loop has run
    emptyText,         \* history: the text of the iteration each thread is in came out empty (line 113)
    txt_in,            \* the argument a text function is called with
    txt_out,           \* the value the last call returned (txt_in before any call)
    txt_prev,          \* the argument of the last call
    txt_ops,           \* the calls made so far, oldest first
    calls              \* history: number of user actions so far

vars == << is_listening, listening_thread, auto_punctuation, auto_capital,
           status_label, output_box, uiQueue, ui_pc, pc, text, iterations, emitted,
           nStopped, exitReason, lastCall, acqAfterStop, afterStop,
           windowElapsed, posted, delivered, emptyText, calls,
           txt_in, txt_out, txt_prev, txt_ops >>

uiVars == << status_label, output_box >>
cfgVars == << auto_punctuation, auto_capital >>
stopHist == << acqAfterStop, afterStop, windowElapsed >>
fifoHist == << posted, delivered >>
txtVars == << txt_in, txt_out, txt_prev, txt_ops >>
sessionVars == << is_listening, listening_thread, auto_punctuation, auto_capital,
                  status_label, output_box, uiQueue, ui_pc, pc, text, iterations,
                  emitted, nStopped, exitReason, lastCall, acqAfterStop, afterStop,
                  windowElapsed, posted, delivered, emptyText, calls >>

(* ---------------------------- initial state ---------------------------- *)
SessionInit ==
    /\ is_listening = FALSE
    /\ listening_thread = 0
    /\ auto_punctuation = FALSE
    /\ auto_capital = TRUE
    /\ status_label = MsgReady
    /\ output_box = <<>>
    /\ uiQueue = <<>>
    /\ ui_pc = "idle"
    /\ pc = [t \in Threads |-> "none"]
    /\ text = [t \in Threads |-> <<>>]
    /\ iterations = 0
    /\ emitted = [t \in Threads |-> <<>>]
    /\ nStopped = [t \in Threads |-> 0]
    /\ exitReason = [t \in Threads |-> "none"]
    /\ lastCall = "none"
    /\ acqAfterStop = [t \in Threads |-> 0]
    /\ afterStop = [t \in Threads |-> <<>>]
    /\ windowElapsed = FALSE
    /\ posted = [t \in Threads |-> 0]
    /\ delivered = [t \in Threads |-> 0]
    /\ emptyText = [t \in Threads |-> FALSE]
    /\ calls = 0

\* no text function is under test while the application runs
Init ==
    /\ SessionInit
    /\ txt_in = <<>>
    /\ txt_out = <<>>
    /\ txt_prev = <<>>
    /\ txt_ops = <<>>

(* ---------------------------- derived state ---------------------------- *)
\* a listen_and_type thread is active from Thread.start() until the function returns
Active(t) == pc[t] \notin {"none", "done"}
ActiveLoops == {t \in Threads : Active(t)}

\* root.after(0, _apply) of update_status (line 158) and of
\* append_output_line (line 174): the callback joins the queue of the Tk loop
update_status(q, src, msg) == Append(q, StatusEv(src, msg))
append_output_line(q, src, line) == Append(q, LineEv(src, line))
\* the queue with its newest callback numbered n
NumberLast(q, n) == [q EXCEPT ![Len(q)] = Numbered(@, n)]

\* what the history variables record when thread t emits the event tagged tag
Recorded(t, tag) ==
    /\ emitted' = [emitted EXCEPT ![t] = Append(@, tag)]
    /\ nStopped' = [nStopped EXCEPT ![t] = IF tag = MsgStopped THEN @ + 1 ELSE @]
    /\ afterStop' = [afterStop EXCEPT ![t] = IF is_listening THEN @ ELSE Append(@, tag)]
    /\ posted' = [posted EXCEPT ![t] = @ + 1]
    /\ delivered' = delivered
    /\ emptyText' = emptyText

\* thread t calls update_status(msg)
ThreadStatus(t, msg) ==
    /\ uiQueue' = NumberLast(update_status(uiQueue, t, msg), posted[t] + 1)
    /\ Recorded(t, msg)

\* thread t calls append_output_line(line)
ThreadLine(t, line) ==
    /\ uiQueue' = NumberLast(append_output_line(uiQueue, t, line), posted[t] + 1)
    /\ Recorded(t, Transcript)

(* ---------------------------- the Tk main loop -------------------------- *)
\* start_listening_thread, lines 131-134: the flag is set and the thread started
StartSpawn ==
    /\ ui_pc = "idle"
    /\ calls < MaxCalls
    /\ calls' = calls + 1
    /\ Len(uiQueue) < MaxQueue
    /\ ~is_listening
    /\ is_listening' = TRUE
    /\ listening_thread' = listening_thread + 1
    /\ pc' = [pc EXCEPT ![listening_thread + 1] = "calibrate"]
    /\ ui_pc' = "start_notify"
    /\ lastCall' = "start"
    /\ acqAfterStop' = [t \in Threads |-> 0]
    /\ afterStop' = [t \in Threads |-> <<>>]
    /\ windowElapsed' = FALSE
    /\ UNCHANGED << txtVars, emptyText, fifoHist, cfgVars, uiVars, uiQueue, text, iterations, emitted, nStopped,
                    exitReason >>

\* start_listening_thread, line 135
StartNotify ==
    /\ ui_pc = "start_notify"
    /\ uiQueue' = update_status(uiQueue, 0, MsgStarted)
    /\ ui_pc' = "idle"
    /\ UNCHANGED << txtVars, emptyText, fifoHist, calls, is_listening, listening_thread, cfgVars, uiVars, pc, text,
                    iterations, emitted, nStopped, exitReason, lastCall, stopHist >>

\* StartAlready without the test of line 131: a thread is created again
StartAgain ==
    /\ ui_pc = "idle"
    /\ calls < MaxCalls
    /\ calls' = calls + 1
    /\ Len(uiQueue) < MaxQueue
    /\ is_listening
    /\ listening_thread + 1 \in Threads
    /\ listening_thread' = listening_thread + 1
    /\ pc' = [pc EXCEPT ![listening_thread + 1] = "calibrate"]
    /\ uiQueue' = update_status(uiQueue, 0, MsgStarted)
    /\ lastCall' = "start"
    /\ UNCHANGED << txtVars, emptyText, fifoHist, is_listening, cfgVars, uiVars, ui_pc, text, iterations, emitted,
                    nStopped, exitReason, stopHist >>

\* start_listening_thread, lines 136-137: the flag is already set
StartAlready ==
    /\ ui_pc = "idle"
    /\ calls < MaxCalls
    /\ calls' = calls + 1
    /\ Len(uiQueue) < MaxQueue
    /\ is_listening
    /\ uiQueue' = update_status(uiQueue, 0, MsgAlready)
    /\ lastCall' = "start"
    /\ UNCHANGED << txtVars, emptyText, fifoHist, is_listening, listening_thread, cfgVars, uiVars, ui_pc, pc, text,
                    iterations, emitted, nStopped, exitReason, stopHist >>

\* stop_listening, line 145
StopSet ==
    /\ ui_pc = "idle"
    /\ calls < MaxCalls
    /\ calls' = calls + 1
    /\ Len(uiQueue) < MaxQueue
    /\ is_listening' = FALSE
    /\ ui_pc' = "stop_notify"
    /\ lastCall' = "stop"
    /\ acqAfterStop' = [t \in Threads |-> 0]
    /\ afterStop' = [t \in Threads |-> <<>>]
    /\ windowElapsed' = FALSE
    /\ UNCHANGED << txtVars, emptyText, fifoHist, listening_thread, cfgVars, uiVars, uiQueue, pc, text, iterations,
                    emitted, nStopped, exitReason >>

\* stop_listening, line 146
StopNotify ==
    /\ ui_pc = "stop_notify"
    /\ uiQueue' = update_status(uiQueue, 0, MsgStopping)
    /\ ui_pc' = "idle"
    /\ UNCHANGED << txtVars, emptyText, fifoHist, calls, is_listening, listening_thread, cfgVars, uiVars, pc, text,
                    iterations, emitted, nStopped, exitReason, lastCall, stopHist >>

\* the Checkbutton bound to auto_capital, line 208 (no widget is bound to
\* auto_punctuation, which keeps the value of line 195)
ToggleCapital ==
    /\ ui_pc = "idle"
    /\ calls < MaxCalls
    /\ calls' = calls + 1
    /\ auto_capital' = ~auto_capital
    /\ UNCHANGED << txtVars, emptyText, fifoHist, is_listening, listening_thread, auto_punctuation, uiVars, uiQueue,
                    ui_pc, pc, text, iterations, emitted, nStopped, exitReason,
                    lastCall, stopHist >>

\* Apply running the newest callback in place of the oldest
ApplyNewest ==
    /\ ui_pc = "idle"
    /\ uiQueue # <<>>
    /\ LET ev == uiQueue[Len(uiQueue)] IN
         /\ IF ev.kind = "status"
            THEN status_label' = ev.status /\ output_box' = output_box
            ELSE output_box' = output_box \o ev.text \o <<"\n">> /\ status_label' = status_label
         /\ delivered' = [t \in Threads |->
                            IF ev.src = t THEN delivered[t] + 1 ELSE delivered[t]]
    /\ uiQueue' = SubSeq(uiQueue, 1, Len(uiQueue) - 1)
    /\ UNCHANGED << txtVars, emptyText, posted, calls, is_listening, listening_thread, cfgVars, ui_pc, pc, text,
                    iterations, emitted, nStopped, exitReason, lastCall, stopHist >>

\* the Tk loop runs the oldest queued _apply: lines 154-155 for a status,
\* lines 169-171 for a transcript line
Apply ==
    /\ ui_pc = "idle"
    /\ uiQueue # <<>>
    /\ LET ev == Head(uiQueue) IN
         IF ev.kind = "status"
         THEN status_label' = ev.status /\ output_box' = output_box
         ELSE output_box' = output_box \o ev.text \o <<"\n">> /\ status_label' = status_label
    /\ uiQueue' = Tail(uiQueue)
    /\ delivered' = [t \in Threads |->
                       IF Head(uiQueue).src = t THEN delivered[t] + 1 ELSE delivered[t]]
    /\ UNCHANGED << txtVars, emptyText, posted, calls, is_listening, listening_thread, cfgVars, ui_pc, pc, text,
                    iterations, emitted, nStopped, exitReason, lastCall, stopHist >>

(* ---------------------------- listen_and_type --------------------------- *)
\* lines 84-87: the microphone is opened, calibrated, and the first status queued
Calibrate(t) ==
    /\ pc[t] = "calibrate"
    /\ ThreadStatus(t, MsgListening)
    /\ pc' = [pc EXCEPT ![t] = "check"]
    /\ UNCHANGED << txtVars, calls, is_listening, listening_thread, cfgVars, uiVars, ui_pc, text,
                    iterations, exitReason, lastCall, acqAfterStop, windowElapsed >>

\* Check with "while True": the flag is not read
CheckIgnoresFlag(t) ==
    /\ pc[t] = "check"
    /\ iterations < MaxIter
    /\ iterations' = iterations + 1
    /\ pc' = [pc EXCEPT ![t] = "call"]
    /\ emitted' = [emitted EXCEPT ![t] = <<>>]
    /\ emptyText' = [emptyText EXCEPT ![t] = FALSE]
    /\ UNCHANGED << txtVars, fifoHist, calls, is_listening, listening_thread, cfgVars, uiVars, uiQueue,
                    ui_pc, text, nStopped, exitReason, lastCall, stopHist >>

\* line 89: the test of the while loop
Check(t) ==
    /\ pc[t] = "check"
    /\ IF is_listening
       THEN /\ iterations < MaxIter
            /\ Len(uiQueue) < MaxQueue
            /\ iterations' = iterations + 1
            /\ pc' = [pc EXCEPT ![t] = "call"]
            /\ emitted' = [emitted EXCEPT ![t] = <<>>]
            /\ emptyText' = [emptyText EXCEPT ![t] = FALSE]
            /\ exitReason' = exitReason
       ELSE /\ pc' = [pc EXCEPT ![t] = "exit"]
            /\ exitReason' = [exitReason EXCEPT ![t] = "flag"]
            /\ UNCHANGED << iterations, emitted, emptyText >>
    /\ UNCHANGED << txtVars, fifoHist, calls, is_listening, listening_thread, cfgVars, uiVars, uiQueue, ui_pc,
                    text, nStopped, lastCall, stopHist >>

\* line 92: recogniser.listen is called and starts to wait for a phrase
ListenBegin(t) ==
    /\ pc[t] = "call"
    /\ pc' = [pc EXCEPT ![t] = "listen"]
    /\ acqAfterStop' = [acqAfterStop EXCEPT ![t] = IF is_listening THEN @ ELSE @ + 1]
    /\ UNCHANGED << txtVars, emptyText, fifoHist, calls, is_listening, listening_thread, cfgVars, uiVars, uiQueue, ui_pc,
                    text, iterations, emitted, nStopped, exitReason, lastCall,
                    afterStop, windowElapsed >>

\* ListenTimeout reporting the timeout as a status
ListenTimeoutNotifies(t) ==
    /\ pc[t] = "listen"
    /\ ThreadStatus(t, MsgNoSpeech)
    /\ pc' = [pc EXCEPT ![t] = "check"]
    /\ windowElapsed' = (windowElapsed \/ (~is_listening /\ acqAfterStop[t] > 0))
    /\ UNCHANGED << txtVars, calls, is_listening, listening_thread, cfgVars, uiVars, ui_pc, text,
                    iterations, exitReason, lastCall, acqAfterStop >>

\* lines 93-95: no phrase started within timeout=1, WaitTimeoutError, continue
ListenTimeout(t) ==
    /\ pc[t] = "listen"
    /\ pc' = [pc EXCEPT ![t] = "check"]
    /\ windowElapsed' = (windowElapsed \/ (~is_listening /\ acqAfterStop[t] > 0))
    /\ UNCHANGED << txtVars, emptyText, fifoHist, calls, is_listening, listening_thread, cfgVars, uiVars, uiQueue, ui_pc,
                    text, iterations, emitted, nStopped, exitReason, lastCall,
                    acqAfterStop, afterStop >>

\* line 92: recogniser.listen returns an audio segment
ListenAudio(t) ==
    /\ pc[t] = "listen"
    /\ pc' = [pc EXCEPT ![t] = "recognise"]
    /\ UNCHANGED << txtVars, emptyText, fifoHist, calls, is_listening, listening_thread, cfgVars, uiVars, uiQueue, ui_pc,
                    text, iterations, emitted, nStopped, exitReason, lastCall, stopHist >>

\* line 98: recognize_google returns a transcription
RecogniseText(t) ==
    /\ pc[t] = "recognise"
    /\ \E x \in Utterances : text' = [text EXCEPT ![t] = x]
    /\ pc' = [pc EXCEPT ![t] = "post"]
    /\ UNCHANGED << txtVars, emptyText, fifoHist, calls, is_listening, listening_thread, cfgVars, uiVars, uiQueue, ui_pc,
                    iterations, emitted, nStopped, exitReason, lastCall, stopHist >>

\* RecogniseUnknown with the acquisition retried without the test of line 89
UnknownRetries(t) ==
    /\ pc[t] = "recognise"
    /\ ThreadStatus(t, MsgNoSpeech)
    /\ pc' = [pc EXCEPT ![t] = "call"]
    /\ UNCHANGED << txtVars, calls, is_listening, listening_thread, cfgVars, uiVars, ui_pc, text,
                    iterations, exitReason, lastCall, acqAfterStop, windowElapsed >>

\* RecogniseUnknown with break in place of continue
UnknownBreaks(t) ==
    /\ pc[t] = "recognise"
    /\ ThreadStatus(t, MsgNoSpeech)
    /\ pc' = [pc EXCEPT ![t] = "exit"]
    /\ exitReason' = [exitReason EXCEPT ![t] = "break"]
    /\ UNCHANGED << txtVars, calls, is_listening, listening_thread, cfgVars, uiVars, ui_pc, text,
                    iterations, lastCall, acqAfterStop, windowElapsed >>

\* lines 99-101: sr.UnknownValueError, status, continue
RecogniseUnknown(t) ==
    /\ pc[t] = "recognise"
    /\ ThreadStatus(t, MsgNoSpeech)
    /\ pc' = [pc EXCEPT ![t] = "check"]
    /\ UNCHANGED << txtVars, calls, is_listening, listening_thread, cfgVars, uiVars, ui_pc, text,
                    iterations, exitReason, lastCall, acqAfterStop, windowElapsed >>

\* RecogniseRequestError with continue in place of break
RequestErrorContinues(t) ==
    /\ pc[t] = "recognise"
    /\ ThreadStatus(t, MsgServiceUnavailable)
    /\ pc' = [pc EXCEPT ![t] = "check"]
    /\ UNCHANGED << txtVars, calls, is_listening, listening_thread, cfgVars, uiVars, ui_pc, text,
                    iterations, exitReason, lastCall, acqAfterStop, windowElapsed >>

\* lines 102-105: sr.RequestError, status, break
RecogniseRequestError(t) ==
    /\ pc[t] = "recognise"
    /\ ThreadStatus(t, MsgServiceUnavailable)
    /\ pc' = [pc EXCEPT ![t] = "exit"]
    /\ exitReason' = [exitReason EXCEPT ![t] = "break"]
    /\ UNCHANGED << txtVars, calls, is_listening, listening_thread, cfgVars, uiVars, ui_pc, text,
                    iterations, lastCall, acqAfterStop, windowElapsed >>

\* PostProcessed with the two transforms in the other order
PostProcessedCapitalFirst(x, punct, capital) ==
    LET c == IF capital THEN auto_capitalise(x) ELSE x
    IN  IF punct THEN punctuate(c) ELSE c

\* lines 108-111: the text after the transforms whose toggles are on
PostProcessed(x, punct, capital) ==
    LET p == IF punct THEN punctuate(x) ELSE x
    IN  IF capital THEN auto_capitalise(p) ELSE p

\* PostProcessed on the texts recognize_google can return, computed once
PostProcessedOf ==
    [x \in Utterances, punct \in BOOLEAN, capital \in BOOLEAN |->
        PostProcessed(x, punct, capital)]

\* PostProcess with the capitalisation applied whatever auto_capital holds
PostProcessAlwaysCapital(t) ==
    /\ pc[t] = "post"
    /\ LET x == PostProcessedOf[text[t], auto_punctuation, TRUE] IN
         IF x # <<>>
         THEN /\ ThreadLine(t, x)
              /\ text' = [text EXCEPT ![t] = x]
              /\ pc' = [pc EXCEPT ![t] = "type"]
         ELSE /\ text' = [text EXCEPT ![t] = <<>>]
              /\ pc' = [pc EXCEPT ![t] = "check"]
              /\ emptyText' = [emptyText EXCEPT ![t] = TRUE]
              /\ UNCHANGED << uiQueue, emitted, nStopped, afterStop, fifoHist >>
    /\ UNCHANGED << txtVars, calls, is_listening, listening_thread, cfgVars, uiVars, ui_pc, iterations,
                    exitReason, lastCall, acqAfterStop, windowElapsed >>

\* PostProcess without the test of line 113: the text is appended and typed
\* whatever it holds
PostProcessNoTest(t) ==
    /\ pc[t] = "post"
    /\ LET x == PostProcessedOf[text[t], auto_punctuation, auto_capital] IN
         /\ ThreadLine(t, x)
         /\ text' = [text EXCEPT ![t] = x]
         /\ pc' = [pc EXCEPT ![t] = "type"]
    /\ UNCHANGED << txtVars, calls, is_listening, listening_thread, cfgVars, uiVars, ui_pc,
                    iterations, exitReason, lastCall, acqAfterStop, windowElapsed >>

\* lines 108-114: the toggles are read, the text transformed and, when it is
\* not empty, appended to the transcript
PostProcess(t) ==
    /\ pc[t] = "post"
    /\ LET x == PostProcessedOf[text[t], auto_punctuation, auto_capital] IN
         IF x # <<>>
         THEN /\ ThreadLine(t, x)
              /\ text' = [text EXCEPT ![t] = x]
              /\ pc' = [pc EXCEPT ![t] = "type"]
         ELSE /\ text' = [text EXCEPT ![t] = <<>>]
              /\ pc' = [pc EXCEPT ![t] = "check"]
              /\ emptyText' = [emptyText EXCEPT ![t] = TRUE]
              /\ UNCHANGED << uiQueue, emitted, nStopped, afterStop, fifoHist >>
    /\ UNCHANGED << txtVars, calls, is_listening, listening_thread, cfgVars, uiVars, ui_pc, iterations,
                    exitReason, lastCall, acqAfterStop, windowElapsed >>

\* line 116: pyautogui.write returns; text is not read again before line 98
\* assigns it
TypeOk(t) ==
    /\ pc[t] = "type"
    /\ pc' = [pc EXCEPT ![t] = "check"]
    /\ text' = [text EXCEPT ![t] = <<>>]
    /\ UNCHANGED << txtVars, emptyText, fifoHist, calls, is_listening, listening_thread, cfgVars, uiVars, uiQueue, ui_pc,
                    iterations, emitted, nStopped, exitReason, lastCall, stopHist >>

\* TypeFail with the exception ending the loop
TypeFailBreaks(t) ==
    /\ pc[t] = "type"
    /\ ThreadStatus(t, MsgTypingFailed)
    /\ pc' = [pc EXCEPT ![t] = "exit"]
    /\ exitReason' = [exitReason EXCEPT ![t] = "break"]
    /\ text' = [text EXCEPT ![t] = <<>>]
    /\ UNCHANGED << txtVars, calls, is_listening, listening_thread, cfgVars, uiVars, ui_pc,
                    iterations, lastCall, acqAfterStop, windowElapsed >>

\* lines 117-120: pyautogui.write raises, status, the loop goes on
TypeFail(t) ==
    /\ pc[t] = "type"
    /\ ThreadStatus(t, MsgTypingFailed)
    /\ pc' = [pc EXCEPT ![t] = "check"]
    /\ text' = [text EXCEPT ![t] = <<>>]
    /\ UNCHANGED << txtVars, calls, is_listening, listening_thread, cfgVars, uiVars, ui_pc, iterations,
                    exitReason, lastCall, acqAfterStop, windowElapsed >>

\* ExitLoop without line 122: the function returns silently
ExitLoopSilent(t) ==
    /\ pc[t] = "exit"
    /\ pc' = [pc EXCEPT ![t] = "done"]
    /\ UNCHANGED << txtVars, emptyText, fifoHist, calls, is_listening, listening_thread, cfgVars, uiVars, uiQueue,
                    ui_pc, text, iterations, emitted, nStopped, exitReason, lastCall,
                    stopHist >>

\* line 122: the terminal status, then the function returns
ExitLoop(t) ==
    /\ pc[t] = "exit"
    /\ ThreadStatus(t, MsgStopped)
    /\ pc' = [pc EXCEPT ![t] = "done"]
    /\ UNCHANGED << txtVars, calls, is_listening, listening_thread, cfgVars, uiVars, ui_pc, text,
                    iterations, exitReason, lastCall, acqAfterStop, windowElapsed >>

ThreadStep(t) ==
    \/ Calibrate(t)
    \/ Check(t)
    \/ ListenBegin(t)
    \/ ListenTimeout(t)
    \/ ListenAudio(t)
    \/ RecogniseText(t)
    \/ RecogniseUnknown(t)
    \/ RecogniseRequestError(t)
    \/ PostProcess(t)
    \/ TypeOk(t)
    \/ TypeFail(t)
    \/ ExitLoop(t)

(* ---------------------------- specifications ---------------------------- *)
Next ==
    \/ StartSpawn
    \/ StartNotify
    \/ StartAlready
    \/ StopSet
    \/ StopNotify
    \/ ToggleCapital
    \/ Apply
    \/ \E t \in Threads : ThreadStep(t)

Spec == Init /\ [][Next]_vars

\* Every started thread is scheduled, its blocking calls return (listen is
\* bounded by its timeout and phrase limit), and the Tk loop finishes the
\* handler it is in and runs its queued callbacks.
FairSpec ==
    /\ Spec
    /\ \A t \in Threads : WF_vars(ThreadStep(t))
    /\ WF_vars(StartNotify \/ StopNotify)
    /\ WF_vars(Apply)

(* ---------------------------- the text functions on their own ----------- *)
\* The pieces the arguments are put together from: the spoken keywords (one
\* in mixed case), the symbols, whitespace, a lower-case and an upper-case
\* letter.
TextTokens ==
    { KwQuestionMark, KwExclamationMark, KwComma, KwFullStop, KwNewLine,
      <<"F", "u", "l", "l", " ", "S", "T", "O", "P">>,
      <<" ">>, <<".">>, <<"!">>, <<"?">>, <<",">>, <<"a">>, <<"B">> }

\* every concatenation of at most n pieces
RECURSIVE TokenStrings(_)
TokenStrings(n) ==
    IF n = 0 THEN { <<>> }
    ELSE LET shorter == TokenStrings(n - 1)
         IN  shorter \cup { x \o k : x \in shorter, k \in TextTokens }

\* the two worked examples
ExampleDictation == <<"h", "e", "l", "l", "o", " ", "c", "o", "m", "m", "a", " ", "w", "o", "r", "l", "d", " ", "f", "u", "l", "l", " ", "s", "t", "o", "p", " ", "h", "o", "w", " ", "a", "r", "e", " ", "y", "o", "u", " ", "q", "u", "e", "s", "t", "i", "o", "n", " ", "m", "a", "r", "k">>
ExampleSentences == <<"h", "e", "l", "l", "o", ".", " ", "i", " ", "w", "e", "n", "t", " ", "t", "o", " ", "N", "A", "S", "A", ".">>

TextInputs == TokenStrings(MaxTokens) \cup { ExampleDictation, ExampleSentences }

\* one call: which function, and for the post-processing of the loop the
\* values the two toggles were read with
Call(f, punct, capital) == [f |-> f, punct |-> punct, capital |-> capital]

TextInit ==
    /\ SessionInit
    /\ txt_in \in TextInputs
    /\ txt_out = txt_in
    /\ txt_prev = txt_in
    /\ txt_ops = <<>>

\* punctuate is called with the last result
CallPunctuate ==
    /\ Len(txt_ops) < 2
    /\ \A i \in 1..Len(txt_ops) : txt_ops[i].f # "listen_and_type"
    /\ txt_prev' = txt_out
    /\ txt_out' = punctuate(txt_out)
    /\ txt_ops' = Append(txt_ops, Call("punctuate", FALSE, FALSE))
    /\ UNCHANGED << txt_in, sessionVars >>

\* auto_capitalise is called with the last result
CallAutoCapitalise ==
    /\ Len(txt_ops) < 2
    /\ \A i \in 1..Len(txt_ops) : txt_ops[i].f # "listen_and_type"
    /\ txt_prev' = txt_out
    /\ txt_out' = auto_capitalise(txt_out)
    /\ txt_ops' = Append(txt_ops, Call("auto_capitalise", FALSE, FALSE))
    /\ UNCHANGED << txt_in, sessionVars >>

\* lines 108-111 run on a recognised text, for either value of each toggle
CallPostProcessing ==
    /\ txt_ops = <<>>
    /\ \E punct \in BOOLEAN, capital \in BOOLEAN :
          /\ txt_out' = PostProcessed(txt_out, punct, capital)
          /\ txt_ops' = <<Call("listen_and_type", punct, capital)>>
    /\ txt_prev' = txt_out
    /\ UNCHANGED << txt_in, sessionVars >>

TextNext ==
    \/ CallPunctuate
    \/ CallAutoCapitalise
    \/ CallPostProcessing

TextSpec == TextInit /\ [][TextNext]_vars

(* ======================================================================== *)
(* The claims                                                               *)
(* ======================================================================== *)

\* C1: in every reachable state at most one listen_and_type thread is active;
\* a session started after a stop() does not overlap the loop of the
\* session before it.
AtMostOneActiveLoop == Cardinality(ActiveLoops) <= 1

\* C2: whenever every loop that was started has exited, for whatever reason,
\* the session is Idle: is_listening is False, so the next start() begins a
\* loop instead of reporting "Already listening...".
IdleWhenLoopExited ==
    (listening_thread # 0 /\ ActiveLoops = {}) => ~is_listening

\* C3: a loop that has exited has emitted the terminal status "Stopped
\* listening." exactly once, as its last event; a loop that has not exited has
\* not emitted it.
StoppedOnceAndLast ==
    \A t \in Threads :
        /\ pc[t] = "done" =>
              /\ nStopped[t] = 1
              /\ emitted[t] # <<>>
              /\ emitted[t][Len(emitted[t])] = MsgStopped
              /\ \A i \in 1..(Len(emitted[t]) - 1) : emitted[t][i] # MsgStopped
        /\ pc[t] # "done" =>
              /\ nStopped[t] = 0
              /\ \A i \in 1..Len(emitted[t]) : emitted[t][i] # MsgStopped

\* a loop has exited after an iteration in which it emitted something
C3Witness ==
    \E t \in Threads : pc[t] = "done" /\ Len(emitted[t]) >= 2

\* a step in which the Tk loop enters start_listening_thread
StartCalled == calls' = calls + 1 /\ lastCall' = "start" /\ cfgVars' = cfgVars

StopEndsLoops ==
    /\ [](\A t \in Threads : acqAfterStop[t] <= 1)
    /\ (~is_listening) ~> (ActiveLoops = {} \/ is_listening)

\* a loop has exited on the flag after an acquisition that began after stop()
C5Witness ==
    /\ lastCall = "stop"
    /\ ~is_listening
    /\ \E t \in Threads :
          pc[t] = "done" /\ exitReason[t] = "flag" /\ acqAfterStop[t] = 1

AfterStopPatterns ==
    { <<MsgListening, MsgStopped>>,
      <<MsgNoSpeech, MsgStopped>>,
      <<MsgServiceUnavailable, MsgStopped>>,
      <<Transcript, MsgStopped>>,
      <<Transcript, MsgTypingFailed, MsgStopped>>,
      <<MsgTypingFailed, MsgStopped>>,
      <<MsgStopped>> }
IsPrefix(a, b) == Len(a) <= Len(b) /\ SubSeq(b, 1, Len(a)) = a

RequestErrorEndsLoop ==
    \A t \in Threads :
        (\E i \in 1..Len(emitted[t]) : emitted[t][i] = MsgServiceUnavailable) =>
            /\ exitReason[t] = "break"
            /\ \/ pc[t] = "exit" /\ emitted[t] = <<MsgServiceUnavailable>> /\ nStopped[t] = 0
               \/ pc[t] = "done" /\ emitted[t] = <<MsgServiceUnavailable, MsgStopped>> /\ nStopped[t] = 1

\* a loop has ended on RequestError
C7Witness ==
    \E t \in Threads :
        pc[t] = "done" /\ emitted[t] = <<MsgServiceUnavailable, MsgStopped>>

\* thread t is at the loop test after an iteration that emitted msg
BackAtTest(t, msg) ==
    /\ pc[t] = "check"
    /\ \E i \in 1..Len(emitted[t]) : emitted[t][i] = msg

\* thread t, whose iteration emitted msg, has not left the loop, or has left
\* it because it read the flag down
NotEndedBy(t, msg) ==
    (\E i \in 1..Len(emitted[t]) : emitted[t][i] = msg) =>
        \/ pc[t] = "check"
        \/ pc[t] \in {"exit", "done"} /\ exitReason[t] = "flag"

\* C8: an iteration that meets UnknownValueError emits the no-speech status
\* and no transcript line, does not end the loop, and the loop goes on to the
\* next acquisition when it reads the flag up.
UnknownValueContinues ==
    /\ [](\A t \in Threads :
            /\ NotEndedBy(t, MsgNoSpeech)
            /\ (\E i \in 1..Len(emitted[t]) : emitted[t][i] = MsgNoSpeech) =>
                  /\ emitted[t][1] = MsgNoSpeech
                  /\ \A i \in 1..Len(emitted[t]) : emitted[t][i] # Transcript)
    /\ [][ \A t \in Threads :
             (BackAtTest(t, MsgNoSpeech) /\ is_listening /\ pc'[t] # pc[t]) =>
                 pc'[t] = "call" ]_vars

\* after UnknownValueError a loop is back at its test with the flag up
C8Witness ==
    \E t \in Threads :
        BackAtTest(t, MsgNoSpeech) /\ is_listening /\ iterations < MaxIter

\* C9: an iteration in which pyautogui.write raises has appended its
\* transcript line and then emitted the typing-failed status, does not end the
\* loop, and the loop goes on to the next acquisition when it reads the flag up.
TypingFailureContinues ==
    /\ [](\A t \in Threads :
            /\ NotEndedBy(t, MsgTypingFailed)
            /\ (\E i \in 1..Len(emitted[t]) : emitted[t][i] = MsgTypingFailed) =>
                  /\ Len(emitted[t]) >= 2
                  /\ emitted[t][1] = Transcript
                  /\ emitted[t][2] = MsgTypingFailed)
    /\ [][ \A t \in Threads :
             (BackAtTest(t, MsgTypingFailed) /\ is_listening /\ pc'[t] # pc[t]) =>
                 pc'[t] = "call" ]_vars

\* after a failed delivery a loop is back at its test with the flag up
C9Witness ==
    \E t \in Threads :
        BackAtTest(t, MsgTypingFailed) /\ is_listening /\ iterations < MaxIter

\* C10: stop() called while the session is stopped changes nothing; here for
\* the stopped state before any session: as long as no thread has been
\* started, the flag is down, no loop is active and the status shown is the
\* initial one.
StopWhenStoppedIsNoOp ==
    listening_thread = 0 =>
        /\ ~is_listening
        /\ ActiveLoops = {}
        /\ status_label = MsgReady

\* the callbacks of thread t that wait in the queue, oldest first
QueuedFrom(t) == SelectSeq(uiQueue, LAMBDA ev : ev.src = t)

\* the Tk loop has just run the callback ev: its effect is on the widgets
AppliedEffect(ev) ==
    IF ev.kind = "status"
    THEN status_label' = ev.status /\ output_box' = output_box
    ELSE output_box' = output_box \o ev.text \o <<"\n">> /\ status_label' = status_label

TogglesReadLive ==
    [][ \A t \in Threads :
          (pc[t] = "post" /\ pc'[t] # "post") =>
              LET p == IF auto_punctuation THEN punctuate(text[t]) ELSE text[t]
                  x == IF auto_capital THEN auto_capitalise(p) ELSE p
              IN  /\ text'[t] = x
                  /\ x # <<>> =>
                        /\ uiQueue' # <<>>
                        /\ uiQueue'[Len(uiQueue')].kind = "line"
                        /\ uiQueue'[Len(uiQueue')].text = x ]_vars

\* one session, the checkbox clicked between two utterances: the first line
\* is capitalised, the second is not
C12Witness ==
    /\ listening_thread = 1
    /\ ~auto_capital
    /\ output_box = <<"H", "i", "\n", "h", "i", "\n">>

\* C13: when recogniser.listen times out, thread t goes from the call straight
\* back to the loop test (not to recognize_google, not to pyautogui.write)
\* and the step registers no callback of t, emits nothing and leaves its
\* text alone.
TimeoutEmitsNothing ==
    [][ \A t \in Threads :
          (pc[t] = "listen" /\ pc'[t] \notin {"listen", "recognise"}) =>
              /\ pc'[t] = "check"
              /\ emitted'[t] = emitted[t]
              /\ posted'[t] = posted[t]
              /\ QueuedFrom(t)' = QueuedFrom(t)
              /\ text'[t] = text[t]
              /\ nStopped'[t] = nStopped[t] ]_vars

\* the one loop there is has run into the timeout of a listen call begun
\* after stop() and is back at its test
C13Witness ==
    /\ listening_thread = 1
    /\ windowElapsed
    /\ pc[1] = "check"
    /\ emitted[1] = <<>>

\* what the loop makes of the utterance "new line" with punctuation on
NewLineAlone == PostProcessed(KwNewLine, TRUE, FALSE)
NewLineAloneCapitalised == PostProcessed(KwNewLine, TRUE, TRUE)

\* C20: the utterance "new line" comes out empty with punctuation on; no
\* transcript line that waits in the queue is empty and no empty text is about
\* to be typed; an utterance whose text comes out empty after the
\* transforms sends its loop straight back to the loop test, with no callback
\* registered and nothing emitted for it (the terminal status of the loop may
\* follow when the loop then ends).
NeverEmptyTranscript ==
    /\ [](/\ NewLineAlone = <<>>
          /\ NewLineAloneCapitalised = <<>>
          /\ \A i \in 1..Len(uiQueue) :
                uiQueue[i].kind = "line" => uiQueue[i].text # <<>>
          /\ \A t \in Threads :
                /\ pc[t] = "type" => text[t] # <<>>
                /\ emptyText[t] =>
                      \A i \in 1..Len(emitted[t]) : emitted[t][i] = MsgStopped)
    /\ [][ \A t \in Threads :
             ( /\ pc[t] = "post"
               /\ pc'[t] # "post"
               /\ PostProcessed(text[t], auto_punctuation, auto_capital) = <<>> ) =>
                 /\ pc'[t] = "check"
                 /\ posted'[t] = posted[t]
                 /\ emitted'[t] = emitted[t]
                 /\ QueuedFrom(t)' = QueuedFrom(t) ]_vars

\* an utterance of whitespace only has been reduced to the empty text and its
\* loop is back at the loop test
C20Witness ==
    \E t \in Threads : emptyText[t] /\ pc[t] = "check" /\ emitted[t] = <<>>

\* C19: once a session has been started and stop() was the last of start /
\* stop, no loop is active any more and every queued callback has been run,
\* the status shown is "Stopped listening.": "Stopping..." is not left on
\* display after it.
StoppedShownAfterStop ==
    ( /\ lastCall = "stop"
      /\ listening_thread # 0
      /\ ui_pc = "idle"
      /\ uiQueue = <<>>
      /\ ActiveLoops = {} ) => status_label = MsgStopped

\* the calls made so far are exactly n calls of f
CalledTimes(f, n) ==
    Len(txt_ops) = n /\ \A i \in 1..n : txt_ops[i].f = f

\* C14: punctuate called on its own result returns that result.
PunctuateIdempotent ==
    CalledTimes("punctuate", 2) => txt_out = txt_prev

\* punctuate has run twice on a text whose first run changed it: a keyword in
\* mixed case and whitespace before a symbol
C14Witness ==
    /\ CalledTimes("punctuate", 2)
    /\ txt_in = <<" ">> \o <<"F", "u", "l", "l", " ", "S", "T", "O", "P">> \o <<" ">>
    /\ txt_prev = <<".">>
    /\ txt_out = <<".">>

\* C15: auto_capitalise called on its own result returns that result.
CapitaliseIdempotent ==
    CalledTimes("auto_capitalise", 2) => txt_out = txt_prev

\* auto_capitalise has run twice on a text whose first run changed it
C15Witness ==
    /\ CalledTimes("auto_capitalise", 2)
    /\ txt_in = <<"a", ".", "a">>
    /\ txt_prev = <<"A", ".", " ", "A">>
    /\ txt_out = txt_prev

\* the worked example after punctuate, and after punctuate and auto_capitalise
ExamplePunctuated == <<"h", "e", "l", "l", "o", ",", " ", "w", "o", "r", "l", "d", ".", " ", "h", "o", "w", " ", "a", "r", "e", " ", "y", "o", "u", "?">>
ExampleNormalised == <<"H", "e", "l", "l", "o", ",", " ", "w", "o", "r", "l", "d", ".", " ", "H", "o", "w", " ", "a", "r", "e", " ", "y", "o", "u", "?">>

\* C16: of the words "hello comma world full stop how are you question mark"
\* punctuate makes "hello, world. how are you?", and the post-processing of
\* the loop makes the same with only the punctuation toggle on and "Hello,
\* world. How are you?" with both toggles on: punctuation first,
\* capitalisation second.
PunctuateThenCapitalise ==
    txt_in = ExampleDictation =>
        /\ txt_ops = <<Call("punctuate", FALSE, FALSE)>> => txt_out = ExamplePunctuated
        /\ txt_ops = <<Call("listen_and_type", TRUE, FALSE)>> => txt_out = ExamplePunctuated
        /\ txt_ops = <<Call("listen_and_type", TRUE, TRUE)>> => txt_out = ExampleNormalised
        /\ txt_ops = <<Call("punctuate", FALSE, FALSE), Call("auto_capitalise", FALSE, FALSE)>> =>
               txt_prev = ExamplePunctuated /\ txt_out = ExampleNormalised

\* the post-processing of the loop has run on the example with both toggles on
C16Witness ==
    /\ txt_in = ExampleDictation
    /\ txt_ops = <<Call("listen_and_type", TRUE, TRUE)>>
    /\ txt_out = ExampleNormalised

\* the keyword kw stands in s at position i as a whole word, in any casing
WholeWordAt(s, i, kw) ==
    /\ i >= 1
    /\ i + Len(kw) - 1 <= Len(s)
    /\ \A k \in 1..Len(kw) : ToUpper(s[i + k - 1]) = ToUpper(kw[k])
    /\ i > 1 => ~IsWord(s[i - 1])
    /\ i + Len(kw) <= Len(s) => ~IsWord(s[i + Len(kw)])

\* how many whole-word occurrences of kw s holds, how often the character c
WholeWords(s, kw) == Cardinality({ i \in 1..Len(s) : WholeWordAt(s, i, kw) })
Occurrences(s, c) == Cardinality({ i \in 1..Len(s) : s[i] = c })

\* C17: the result of punctuate holds no whole-word keyword in any casing, no
\* whitespace directly before , . ! or ?, and no outer whitespace; every
\* whole-word "question mark", "exclamation mark", "comma" and "full stop" of
\* the argument has become its symbol (the result holds as many of the
\* symbol as the argument held of symbol and keyword together); "full stop"
\* and "Full STOP" both come out as ".".
PunctuateReplacesKeywords ==
    CalledTimes("punctuate", 1) =>
        /\ \A j \in 1..Len(replacements), i \in 1..Len(txt_out) :
               ~WholeWordAt(txt_out, i, replacements[j][1])
        /\ \A i \in 1..(Len(txt_out) - 1) :
               ~(IsSpace(txt_out[i]) /\ IsPunct(txt_out[i + 1]))
        /\ txt_out # <<>> => ~IsSpace(txt_out[1]) /\ ~IsSpace(txt_out[Len(txt_out)])
        /\ \A j \in 1..4 :
               Occurrences(txt_out, replacements[j][2]) =
                   Occurrences(txt_in, replacements[j][2])
                   + WholeWords(txt_in, replacements[j][1])
        /\ txt_in \in { KwFullStop, <<"F", "u", "l", "l", " ", "S", "T", "O", "P">> } =>
               txt_out = <<".">>

\* punctuate has run on a text with a keyword in mixed case and whitespace
\* before the symbol it becomes
C17Witness ==
    /\ CalledTimes("punctuate", 1)
    /\ txt_in = <<"a", " ">> \o <<"F", "u", "l", "l", " ", "S", "T", "O", "P">>
    /\ txt_out = <<"a", ".">>

\* the characters of s that are no whitespace, and where they stand in s
NonSpace(s) == SelectSeq(s, LAMBDA c : ~IsSpace(c))
NonSpaceAt(s) == SelectSeq([i \in 1..Len(s) |-> i], LAMBDA i : ~IsSpace(s[i]))

\* position i of s begins a sentence: it is the first, or it follows a
\* terminator and one space
SentenceStart(s, i) ==
    i = 1 \/ (i >= 3 /\ IsTerminal(s[i - 2]) /\ s[i - 1] = " ")

\* the worked example capitalised
ExampleCapitalised == <<"H", "e", "l", "l", "o", ".", " ", "I", " ", "w", "e", "n", "t", " ", "t", "o", " ", "N", "A", "S", "A", ".">>

====
